---- MODULE Spec2Model ----
\* wxSidViewer (src/supersid/wxsidviewer.py): the wx window of SuperSID, its
\* status bar, the wx.CallAfter queue, the "update" pubsub channel, the dialogs
\* and the close/exit path, as a state machine.
EXTENDS Integers, Sequences, FiniteSets, TLC

VARIABLES
    phase,        \* "new" before __init__, "ready" after it returned, "failed" if it raised
    window,       \* the wx.Frame: "none", "live", "destroyed"
    mainloop,     \* self.app's main loop: "idle", "running", "exited"
    iconSet,      \* SetIcon succeeded
    menubar,      \* SetMenuBar done and the menu handlers bound
    canvas,       \* self.canvas / self.axes created
    statusbar,    \* self.status_bar created with two fields
    subscribed,   \* updateDisplay subscribed to "update"
    status,       \* text of the two status-bar fields
    pending,      \* calls queued by wx.CallAfter, oldest first
    draws,        \* number of completed self.canvas.draw()
    closeEvents,  \* number of EVT_CLOSE events delivered to on_close
    closeCalls,   \* number of controller.on_close() calls
    plotCalls,    \* arguments handed to SUPERSID_PLOT.plot_filelist, oldest first
    exitCode,     \* <<>> while the process runs, else <<status given to exit()>>
    chosen,       \* input: the file names the user selects in the file dialog
    last          \* history: the last operation, its inputs and its outcome

vars == <<phase, window, mainloop, iconSet, menubar, canvas, statusbar, subscribed,
          status, pending, draws, closeEvents, closeCalls, plotCalls, exitCode, chosen,
          last>>

------------------------------------------------------------------------------
\* Bounds of the model.

MaxPending == 1
MaxDraws == 1
MaxCloseCalls == 1
MaxPlotCalls == 1
MaxFiles == 2
MaxNameLen == 2

\* Inputs.
Msgs == {"m1", "m2"}
\* a payload that is not text (structured data published on the channel)
NonText == "<data>"
Payloads == Msgs \cup {NonText}
Fields == {0, 1}
Levels == {0, 1, 2}
Threads == {"ui", "capture"}
DialogAnswers == {"ID_YES", "ID_NO", "ID_CANCEL"}
FileDialogAnswers == {"ID_OK", "ID_CANCEL"}
BoxResults == {"YES", "NO", "CANCEL", "OK", "HELP"}
ClickX == {24000}
ClickY == {-10, 0, 10}
Datas == {"d1", "d2"}
NFFTs == {1024, 2048}
FSs == {48000}
Chars == {"a", ","}

NoExc == "none"
\* exitCode while the process runs; <<n>> once exit(n) ended it
NoExit == <<>>

------------------------------------------------------------------------------
\* The program state as one record, so that methods compose as operators.

State ==
    [phase |-> phase, window |-> window, mainloop |-> mainloop, iconSet |-> iconSet,
     menubar |-> menubar, canvas |-> canvas, statusbar |-> statusbar,
     subscribed |-> subscribed, status |-> status, pending |-> pending,
     draws |-> draws, closeEvents |-> closeEvents, closeCalls |-> closeCalls,
     plotCalls |-> plotCalls, exitCode |-> exitCode, raised |-> NoExc, ret |-> <<>>]

Becomes(s) ==
    /\ phase' = s.phase
    /\ window' = s.window
    /\ mainloop' = s.mainloop
    /\ iconSet' = s.iconSet
    /\ menubar' = s.menubar
    /\ canvas' = s.canvas
    /\ statusbar' = s.statusbar
    /\ subscribed' = s.subscribed
    /\ status' = s.status
    /\ pending' = s.pending
    /\ draws' = s.draws
    /\ closeEvents' = s.closeEvents
    /\ closeCalls' = s.closeCalls
    /\ plotCalls' = s.plotCalls
    /\ exitCode' = s.exitCode
    /\ chosen' = chosen

Raise(s, exc) ==
    [s EXCEPT !.raised = exc]

------------------------------------------------------------------------------
\* __init__

\* try: SetIcon(...) finally: pass -- a finally clause re-raises what the body raised
IconGuard(exc) ==
    exc

wxSidViewer_init(s, iconExc) ==
    LET framed == [s EXCEPT !.window = "live"]
    IN  IF IconGuard(iconExc) # NoExc
        THEN Raise([framed EXCEPT !.phase = "failed"], IconGuard(iconExc))
        ELSE [framed EXCEPT !.phase = "ready",
                            !.iconSet = (iconExc = NoExc),
                            !.menubar = TRUE,
                            !.canvas = TRUE,
                            !.statusbar = TRUE,
                            !.status = [f \in Fields |-> ""],
                            !.subscribed = TRUE]

\* run(): self.app.MainLoop()
run(s) ==
    [s EXCEPT !.mainloop = "running"]

------------------------------------------------------------------------------
\* status_display and the CallAfter queue

\* self.status_bar.SetStatusText(message, field): a destroyed window's widgets
\* raise PyDeadObjectError, a message that is not text raises TypeError
SetStatusText(s, message, field) ==
    IF s.window # "live" THEN Raise(s, "PyDeadObjectError")
    ELSE IF message = NonText THEN Raise(s, "TypeError")
    ELSE [s EXCEPT !.status[field] = message]

\* wx.CallAfter(fn, *args): asked is history only (the field the caller asked
\* for), no code reads it
CallAfter(s, fn, message, asked) ==
    [s EXCEPT !.pending = Append(@, [fn |-> fn, message |-> message, asked |-> asked])]

status_display_level2Direct(s, message, level, field) ==
    IF level = 1 THEN CallAfter(s, "status_display", message, field)
    ELSE SetStatusText(s, message, field)

\* level 1 queues self.status_display(message), level 2 queues
\* Publisher().sendMessage("update", message), any other level writes the field
status_display(s, message, level, field) ==
    IF level = 1 THEN CallAfter(s, "status_display", message, field)
    ELSE IF level = 2 THEN CallAfter(s, "sendMessage", message, 0)
    ELSE SetStatusText(s, message, field)

\* Publisher().sendMessage("update", message) builds a Message whose data is the
\* payload; a foreign object handed to the handler may have no data attribute
Message(payload) ==
    [hasData |-> TRUE, data |-> payload]

MsgObjects ==
    {Message(p) : p \in Payloads} \cup {[hasData |-> FALSE, data |-> NonText]}

\* the try body of updateDisplay: self.canvas.draw(); self.status_display(msg.data)
updateDisplayBody(s, msg, drawExc) ==
    IF s.window # "live" THEN Raise(s, "PyDeadObjectError")
    ELSE IF drawExc # NoExc THEN Raise(s, drawExc)
    ELSE LET drawn == [s EXCEPT !.draws = @ + 1]
         IN  IF ~msg.hasData THEN Raise(drawn, "AttributeError")
             ELSE status_display(drawn, msg.data, 0, 0)

updateDisplay_unguarded(s, msg, drawExc) ==
    updateDisplayBody(s, msg, drawExc)

\* except: pass
updateDisplay(s, msg, drawExc) ==
    Raise(updateDisplayBody(s, msg, drawExc), NoExc)

\* Publisher().sendMessage("update", message): calls the subscribers of the topic
sendMessage(s, payload, drawExc) ==
    IF s.subscribed THEN updateDisplay(s, Message(payload), drawExc) ELSE s

\* the UI thread runs the oldest call queued by wx.CallAfter: either
\* self.status_display(message), with the default level and field, or
\* Publisher().sendMessage("update", message)
RunPending(s, drawExc) ==
    LET item == Head(s.pending)
        rest == [s EXCEPT !.pending = Tail(@)]
    IN  IF item.fn = "status_display"
        THEN status_display(rest, item.message, 0, 0)
        ELSE sendMessage(rest, item.message, drawExc)

------------------------------------------------------------------------------
\* closing

close_keepsLoop(s) ==
    IF s.window # "live" THEN Raise(s, "PyDeadObjectError")
    ELSE [s EXCEPT !.window = "destroyed"]

\* close(): self.app.Exit(); self.Destroy()
close(s) ==
    IF s.window # "live" THEN Raise(s, "PyDeadObjectError")
    ELSE [s EXCEPT !.mainloop = "exited", !.window = "destroyed"]

\* on_close(event): self.controller.on_close(); the controller may call close()
on_close(s, ctrlCloses) ==
    LET told == [s EXCEPT !.closeCalls = @ + 1]
    IN  IF ctrlCloses THEN close(told) ELSE told

\* self.Close(True): an EVT_CLOSE event, bound to on_close by __init__
Close(s, ctrlCloses) ==
    on_close([s EXCEPT !.closeEvents = @ + 1], ctrlCloses)

SignOff == "This is supersid signing off..."

on_exit_anyAnswer(s, answer, ctrlCloses) ==
    LET said == status_display(s, SignOff, 0, 0)
    IN  IF answer # "ID_CANCEL" THEN Close(said, ctrlCloses) ELSE said

on_exit(s, answer, ctrlCloses) ==
    LET said == status_display(s, SignOff, 0, 0)
    IN  IF answer = "ID_YES" THEN Close(said, ctrlCloses) ELSE said

------------------------------------------------------------------------------
\* on_click

RECURSIVE Pow10(_)
Pow10(k) ==
    IF k = 0 THEN 1 ELSE 10 * Pow10(k - 1)

\* a rational <<numerator, denominator>> rounded to the nearest integer, ties to
\* even, as "%.0f" prints a float
RoundHalfEven(r) ==
    LET q == r[1] \div r[2]
        twice == 2 * (r[1] % r[2])
    IN  IF twice < r[2] THEN q
        ELSE IF twice > r[2] THEN q + 1
        ELSE IF q % 2 = 0 THEN q ELSE q + 1

strength_negated(ydata) ==
    LET e == ydata \div 10
    IN  IF e >= 0 THEN <<1, Pow10(e)>> ELSE <<Pow10(-e), 1>>

\* pow(10, (event.ydata/10.0)) as an exact rational, for ydata a multiple of 10
strength(ydata) ==
    LET e == ydata \div 10
    IN  IF e >= 0 THEN <<Pow10(e), 1>> ELSE <<1, Pow10(-e)>>

\* "frequency=%.0f  " % xdata + " power=%.3f  " % ydata + " strength=%.0f" % strength
\* for whole numbers xdata and ydata
ClickMessage(xdata, ydata) ==
    "frequency=" \o ToString(xdata) \o "  " \o " power=" \o ToString(ydata) \o ".000  "
        \o " strength=" \o ToString(RoundHalfEven(strength(ydata)))

ClickEvents ==
    [inaxes : BOOLEAN, xdata : ClickX, ydata : ClickY]

\* s.ret keeps the local variable strength
on_click(s, event) ==
    IF event.inaxes
    THEN status_display([s EXCEPT !.ret = strength(event.ydata)],
                        ClickMessage(event.xdata, event.ydata), 0, 1)
    ELSE s

------------------------------------------------------------------------------
\* display_message

display_message_distinct(boxResult) ==
    IF boxResult = "YES" THEN 1
    ELSE IF boxResult = "NO" THEN 2
    ELSE IF boxResult = "CANCEL" THEN 3
    ELSE 0

\* the return value for the result of wx.MessageBox
display_message(boxResult) ==
    IF boxResult = "YES" THEN 1
    ELSE IF boxResult = "NO" THEN 1
    ELSE IF boxResult = "CANCEL" THEN 1
    ELSE 0

------------------------------------------------------------------------------
\* get_psd

\* self.axes.psd(data, NFFT=NFFT, Fs=FS) of a live plot surface: the pair
\* (Pxx, freqs), left uninterpreted
AxesPsd(data, NFFT, FS) ==
    << <<"Pxx", data, NFFT, FS>>, <<"freqs", NFFT, FS>> >>

get_psd_swapped(s, data, NFFT, FS) ==
    IF s.window # "live"
    THEN [s EXCEPT !.exitCode = <<1>>, !.ret = <<>>]
    ELSE [s EXCEPT !.ret = <<AxesPsd(data, NFFT, FS)[2], AxesPsd(data, NFFT, FS)[1]>>]

\* s.ret is what get_psd returns, <<>> when it does not return
get_psd(s, data, NFFT, FS) ==
    IF s.window # "live"
    THEN [s EXCEPT !.exitCode = <<3>>, !.ret = <<>>]
    ELSE [s EXCEPT !.ret = AxesPsd(data, NFFT, FS)]

------------------------------------------------------------------------------
\* on_plot_files

Prefix == <<".", ".", "/", "D", "a", "t", "a", "/">>

\* str.rstrip(','): drops every trailing comma
RECURSIVE rstrip(_)
rstrip(str) ==
    IF str # <<>> /\ str[Len(str)] = ","
    THEN rstrip(SubSeq(str, 1, Len(str) - 1))
    ELSE str

\* for u_filename in filenames: filelist = filelist + "../Data/" + u_filename + ","
RECURSIVE Accumulate(_, _)
Accumulate(filelist, filenames) ==
    IF filenames = <<>> THEN filelist
    ELSE Accumulate(filelist \o Prefix \o Head(filenames) \o <<",">>, Tail(filenames))

on_plot_files(s, dialogAnswer, filenames) ==
    IF dialogAnswer = "ID_OK"
    THEN [s EXCEPT !.plotCalls = Append(@, rstrip(Accumulate(<<>>, filenames)))]
    ELSE s

\* file names: strings of 1..MaxNameLen characters
Names ==
    UNION {[1..n -> Chars] : n \in 1..MaxNameLen}

Selections ==
    UNION {[1..n -> Names] : n \in 0..MaxFiles}

------------------------------------------------------------------------------
\* The state machine.

NoInput == [none |-> TRUE]

InitWith(selection) ==
    /\ chosen = selection
    /\ phase = "new"
    /\ window = "none"
    /\ mainloop = "idle"
    /\ iconSet = FALSE
    /\ menubar = FALSE
    /\ canvas = FALSE
    /\ statusbar = FALSE
    /\ subscribed = FALSE
    /\ status = [f \in Fields |-> ""]
    /\ pending = <<>>
    /\ draws = 0
    /\ closeEvents = 0
    /\ closeCalls = 0
    /\ plotCalls = <<>>
    /\ exitCode = NoExit
    /\ last = [op |-> "none", in |-> NoInput, raised |-> NoExc, ret |-> <<>>]

Init ==
    InitWith(<<>>)

\* the user's selection in the file dialog is any of Selections
InitDialogs ==
    \E selection \in Selections : InitWith(selection)

\* one operation: the state becomes s, the history records the call
Do(op, in, s) ==
    /\ Becomes(s)
    /\ last' = [op |-> op, in |-> in, raised |-> s.raised, ret |-> s.ret]

\* the viewer was built and the process runs
Alive ==
    phase = "ready" /\ exitCode = NoExit

\* the UI thread is in the event loop of a live window: user events arrive
Interactive ==
    Alive /\ mainloop = "running" /\ window = "live"

Construct ==
    /\ phase = "new"
    /\ \E iconExc \in {NoExc, "IconError"} :
          Do("init", [iconExc |-> iconExc], wxSidViewer_init(State, iconExc))

Run ==
    /\ Alive
    /\ mainloop = "idle"
    /\ Do("run", NoInput, run(State))

StatusDisplay ==
    /\ Alive
    /\ \E thread \in Threads, message \in Msgs, level \in Levels, field \in Fields :
          /\ level # 0 => Len(pending) < MaxPending
          /\ Do("status_display",
                [thread |-> thread, message |-> message, level |-> level, field |-> field],
                status_display(State, message, level, field))

Dispatch ==
    /\ Alive
    /\ mainloop = "running"
    /\ pending # <<>>
    /\ draws < MaxDraws
    /\ \E drawExc \in {NoExc, "DrawError"} :
          Do("dispatch", [item |-> Head(pending), drawExc |-> drawExc],
             RunPending(State, drawExc))

UpdateDisplayCall ==
    /\ Alive
    /\ draws < MaxDraws
    /\ \E msg \in MsgObjects, drawExc \in {NoExc, "DrawError"} :
          Do("updateDisplay", [msg |-> msg, drawExc |-> drawExc],
             updateDisplay(State, msg, drawExc))

UserClose ==
    /\ Interactive
    /\ closeCalls < MaxCloseCalls
    /\ \E ctrlCloses \in BOOLEAN :
          Do("user_close", [ctrlCloses |-> ctrlCloses], Close(State, ctrlCloses))

ControllerClose ==
    /\ Alive
    /\ Do("close", NoInput, close(State))

OnExit ==
    /\ Interactive
    /\ closeCalls < MaxCloseCalls
    /\ \E answer \in DialogAnswers, ctrlCloses \in BOOLEAN :
          Do("on_exit", [answer |-> answer, ctrlCloses |-> ctrlCloses],
             on_exit(State, answer, ctrlCloses))

OnClick ==
    /\ Interactive
    /\ \E event \in ClickEvents :
          Do("on_click", [event |-> event], on_click(State, event))

DisplayMessage ==
    /\ Alive
    /\ \E boxResult \in BoxResults :
          Do("display_message", [boxResult |-> boxResult],
             [State EXCEPT !.ret = <<display_message(boxResult)>>])

GetPsd ==
    /\ Alive
    /\ \E data \in Datas, NFFT \in NFFTs, FS \in FSs :
          Do("get_psd", [data |-> data, NFFT |-> NFFT, FS |-> FS],
             get_psd(State, data, NFFT, FS))

OnPlotFiles ==
    /\ Alive
    /\ window = "live"
    /\ Len(plotCalls) < MaxPlotCalls
    /\ \E dialogAnswer \in FileDialogAnswers :
          Do("on_plot_files", [dialogAnswer |-> dialogAnswer, filenames |-> chosen],
             on_plot_files(State, dialogAnswer, chosen))

Next ==
    \/ Construct
    \/ Run
    \/ StatusDisplay
    \/ Dispatch
    \/ UpdateDisplayCall
    \/ UserClose
    \/ ControllerClose
    \/ OnExit
    \/ OnClick
    \/ GetPsd

Spec ==
    Init /\ [][Next]_vars

\* The two handlers that read nothing of the window but a dialog's answer:
\* on_plot_files (no menu item is bound to it) and display_message, with the
\* answers and the selection ranging over their whole sets.
NextDialogs ==
    \/ Construct
    \/ OnPlotFiles
    \/ DisplayMessage

SpecDialogs ==
    InitDialogs /\ [][NextDialogs]_vars

------------------------------------------------------------------------------
\* Properties.

\* C1: status_display(message, level=0, field=f) on a live window writes message
\* to field f during the call and queues nothing; status_display(message,
\* level=2, field=f) writes no status field during the call and queues exactly
\* one publication of message on "update" for the UI thread, from either thread.
C1_StatusDisplayDispatch ==
    [][last'.op = "status_display" =>
        /\ last'.in.level = 0 => pending' = pending
        /\ (last'.in.level = 0 /\ window = "live") =>
              /\ last'.raised = NoExc
              /\ status' = [status EXCEPT ![last'.in.field] = last'.in.message]
        /\ last'.in.level = 2 =>
              /\ last'.raised = NoExc
              /\ status' = status
              /\ Len(pending') = Len(pending) + 1
              /\ SubSeq(pending', 1, Len(pending)) = pending
              /\ pending'[Len(pending')].fn = "sendMessage"
              /\ pending'[Len(pending')].message = last'.in.message]_vars

C1_Witness ==
    /\ last.op = "status_display"
    /\ last.in.level = 2
    /\ last.in.thread = "capture"
    /\ last.in.field = 1
    /\ window = "live"
    /\ pending # <<>>
    /\ pending[Len(pending)] = [fn |-> "sendMessage", message |-> last.in.message, asked |-> 0]

\* the handler ran: called directly, or by the UI thread for a queued publication
UpdateDisplayRan ==
    \/ last.op = "updateDisplay"
    \/ last.op = "dispatch" /\ last.in.item.fn = "sendMessage"

\* C2: updateDisplay never propagates an exception, whether draw() raises,
\* status_display raises, the payload cannot be read or the window is destroyed;
\* when nothing raises it redraws the canvas and writes the payload to field 0.
C2_UpdateDisplayNeverRaises ==
    [][UpdateDisplayRan' =>
        /\ last'.raised = NoExc
        /\ (/\ last'.op = "updateDisplay"
            /\ window = "live"
            /\ last'.in.drawExc = NoExc
            /\ last'.in.msg.hasData
            /\ last'.in.msg.data # NonText) =>
              /\ draws' = draws + 1
              /\ status' = [status EXCEPT ![0] = last'.in.msg.data]]_vars

C2_Witness ==
    /\ last.op = "updateDisplay"
    /\ window = "destroyed"
    /\ last.raised = NoExc

\* C3: a failure while loading or setting the icon in the constructor is
\* ignored: the constructor continues and the menu bar, canvas, status bar and
\* the "update" subscription are all set up.
C3_IconFailureIgnored ==
    (last.op = "init" /\ last.in.iconExc # NoExc) =>
        /\ last.raised = NoExc
        /\ phase = "ready"
        /\ menubar
        /\ canvas
        /\ statusbar
        /\ subscribed

\* C4: on_exit asks yes/no; on Yes the window is sent one close event and the
\* close handler calls the controller's on_close exactly once (the window is
\* destroyed when the controller answers with close()); on any other answer the
\* window stays open and the controller's on_close is not called.
C4_QuitConfirmed ==
    [][last'.op = "on_exit" =>
        IF last'.in.answer = "ID_YES"
        THEN /\ closeEvents' = closeEvents + 1
             /\ closeCalls' = closeCalls + 1
             /\ last'.in.ctrlCloses => window' = "destroyed"
        ELSE /\ closeEvents' = closeEvents
             /\ closeCalls' = closeCalls
             /\ window' = "live"
             /\ mainloop' = mainloop]_vars

C4_Witness ==
    /\ last.op = "on_exit"
    /\ last.in.answer = "ID_YES"
    /\ closeCalls = 1
    /\ status[0] = SignOff

LiveWindows ==
    IF window = "live" THEN 1 ELSE 0

\* the operation that just ran called close()
CloseRan ==
    \/ last.op = "close"
    \/ last.op \in {"user_close", "on_exit"} /\ last.in.ctrlCloses

\* C5: at most one live window; it is created live by the constructor,
\* destroyed only by close() (a close event alone only forwards to the
\* controller), close() both ends the event loop and destroys the window, and a
\* destroyed window never becomes live again.
C5_WindowLifecycle ==
    [][/\ LiveWindows' <= 1
       /\ window' # window =>
             \/ window = "none" /\ window' = "live" /\ last'.op = "init"
             \/ window = "live" /\ window' = "destroyed" /\ CloseRan'
       /\ (last'.op = "user_close" /\ ~last'.in.ctrlCloses) =>
             /\ window' = window
             /\ mainloop' = mainloop
             /\ closeCalls' = closeCalls + 1
       /\ (last'.op = "close" /\ window = "live") =>
             /\ window' = "destroyed"
             /\ mainloop' = "exited"
       /\ window' = "destroyed" => mainloop' = "exited"
       /\ window = "destroyed" => window' = "destroyed"]_vars

C5_Witness ==
    /\ last.op = "close"
    /\ last.raised = NoExc
    /\ window = "destroyed"
    /\ mainloop = "exited"

\* C6: get_psd returns exactly the pair of the plot surface's psd routine when
\* the surface is live; when it is destroyed the process exits with code 3 and
\* get_psd returns nothing.
C6_GetPsd ==
    last.op = "get_psd" =>
        IF window = "live"
        THEN /\ last.ret = AxesPsd(last.in.data, last.in.NFFT, last.in.FS)
             /\ exitCode = NoExit
        ELSE /\ last.ret = <<>>
             /\ exitCode = <<3>>

C6_Witness ==
    /\ last.op = "get_psd"
    /\ window = "destroyed"
    /\ exitCode = <<3>>

\* the selected names, each prefixed with "../Data/", joined by single commas
RECURSIVE Joined(_)
Joined(filenames) ==
    IF Len(filenames) = 1 THEN Prefix \o Head(filenames)
    ELSE Prefix \o Head(filenames) \o <<",">> \o Joined(Tail(filenames))

\* C7: when the file dialog is confirmed with a non-empty selection,
\* plot_filelist gets the selected names in order, each prefixed with
\* "../Data/", joined by single commas; when it is not confirmed, plot_filelist
\* is not called.
C7_FilelistJoined ==
    [][last'.op = "on_plot_files" =>
        IF last'.in.dialogAnswer = "ID_OK"
        THEN last'.in.filenames # <<>> =>
                plotCalls' = Append(plotCalls, Joined(last'.in.filenames))
        ELSE plotCalls' = plotCalls]_vars

\* C8: display_message gives 1 for YES, 1 for NO, 1 for CANCEL and 0 for every
\* other result of the message box, and no other value.
C8_DisplayMessageMapping ==
    last.op = "display_message" =>
        /\ last.ret = IF last.in.boxResult \in {"YES", "NO", "CANCEL"} THEN <<1>> ELSE <<0>>
        /\ last.ret \in {<<0>>, <<1>>}

C8_Witness ==
    /\ last.op = "display_message"
    /\ last.in.boxResult = "NO"
    /\ last.ret = <<1>>

\* C9: on_click changes the status bar only for a click within the plot bounds,
\* and then writes only field 1, with the message built from the clicked
\* frequency, the power y and strength = 10^(y/10): 1 for y = 0, 10 for y = 10,
\* 1/10 for y = -10; a click outside leaves both fields unchanged.
C9_ClickStatus ==
    [][last'.op = "on_click" =>
        LET x == last'.in.event.xdata
            y == last'.in.event.ydata
        IN  IF last'.in.event.inaxes
            THEN /\ status'[0] = status[0]
                 /\ status'[1] = "frequency=" \o ToString(x) \o "  " \o " power="
                                    \o ToString(y) \o ".000  " \o " strength="
                                    \o ToString(RoundHalfEven(last'.ret))
                 /\ y = 0 => last'.ret = <<1, 1>>
                 /\ y = 10 => last'.ret = <<10, 1>>
                 /\ y = -10 => last'.ret = <<1, 10>>
            ELSE status' = status]_vars

C9_Witness ==
    /\ last.op = "on_click"
    /\ last.in.event.inaxes
    /\ last.in.event.ydata = -10
    /\ last.ret = <<1, 10>>
    /\ status[1] = "frequency=24000   power=-10.000   strength=0"
    /\ status[0] = "m1"

\* C10: status_display(message, level=1, field=f) made off the UI thread writes
\* no status field on the calling thread, and once the UI thread runs the
\* queued call the message is in field f, the other field unchanged.
C10_Level1KeepsField ==
    [][/\ (last'.op = "status_display" /\ last'.in.level = 1
             /\ last'.in.thread = "capture") => status' = status
       /\ (last'.op = "dispatch" /\ last'.in.item.fn = "status_display"
             /\ last'.raised = NoExc) =>
             status' = [status EXCEPT ![last'.in.item.asked] = last'.in.item.message]]_vars

====
